---- MODULE Spec2Model ----
(***************************************************************************)
(* Model of the pull-request collection pipeline of scripts/get_prs.py:    *)
(* request (retry, backoff, rate-limit pause), processRepo (pagination and *)
(* per-node filters), getValidRepos (progress set read back from the       *)
(* output CSV) and main (the per-candidate loop with incremental append).  *)
(* A second specification models the discovery stage of                    *)
(* scripts/get_repos.py: request, countPRs and getValidRepos.              *)
(*                                                                         *)
(* Granularity: one step per HTTP round trip (one iteration of the retry   *)
(* loop of request), one step for the handling of a returned page by       *)
(* processRepo, one step per iteration of the candidate loop of main and   *)
(* one step per file write.  The process can be terminated between any two *)
(* steps and in the middle of a write.                                     *)
(*                                                                         *)
(* Scope: the CSV is modelled line by line (a write cut short leaves whole *)
(* lines); owner and name are strings that pandas reads back unchanged     *)
(* (no numeric or NA-like names) and that hold no "/".                     *)
(***************************************************************************)
EXTENDS Integers, Sequences, FiniteSets, TLC

VARIABLES
  candidates,     \* rows of ../results/repos.csv (input, fixed over a behaviour)
  file,           \* the output CSV: [exists, lines]
  run,            \* number of runs of main started so far
  pc,             \* position of the process
  processed_repos,\* main: the set returned by getValidRepos at start-up
  idx,            \* main: position in repos_df.iterrows() (1-based)
  acc,            \* processRepo: valid_prs_for_this_repo
  cursor,         \* processRepo: cursor (<<>> is None, <<c>> a token)
  page_count,     \* processRepo: page_count
  has_next_page,  \* processRepo: has_next_page
  variables,      \* request: the variables of the query being sent
  attempt,        \* request: loop index of `for attempt in range(retries)`
  delay,          \* request: current back-off delay
  calllog,        \* request: per HTTP request of the current call, what came back and the sleep that followed
  ret,            \* request: return value of the current call
  lastPage,       \* history: the nodes processRepo read in the step just taken (<<>> after any other step)
  tracking,       \* history: completedIn is being recorded (fixed over a behaviour)
  linesAtStart,   \* history: number of lines of the file when the current run started
  prevCompleted,  \* history: the run before the current one ran to "Coleta concluída."
  completedIn,    \* history: per repository, the first run in which its collection reached
                  \*          hasNextPage = false and was saved in full (0: none so far)
  dpc,            \* get_repos: position of the process in getValidRepos
  valid_repos,    \* get_repos.getValidRepos: valid_repos
  invalid_repos,  \* get_repos.getValidRepos: invalid_repos
  search_cursor,  \* get_repos.getValidRepos: cursor (<<>> is None)
  repos,          \* get_repos.getValidRepos: repos, the edges of the current search page
  page_info,      \* get_repos.getValidRepos: page_info
  edge,           \* get_repos.getValidRepos: position of `for repo_edge in repos` (1-based)
  examined,       \* history: per candidate examined, in order, the PR count its query told (-1: none)
  lastReq         \* history: the most recent request of get_repos and what came back

vars == <<candidates, file, run, pc, processed_repos, idx, acc, cursor, page_count, has_next_page,
          variables, attempt, delay, calllog, ret,
          lastPage, tracking, linesAtStart, prevCompleted, completedIn,
          dpc, valid_repos, invalid_repos, search_cursor, repos, page_info, edge,
          examined, lastReq>>

(***************************************************************************)
(* Bounds of the model.                                                    *)
(***************************************************************************)
MaxRuns  == 2   \* runs of main in one behaviour
MaxPages == 2   \* pages the API serves per repository before hasNextPage must be false
PageSize == 2   \* PRs per page (the query asks for `first: 100`)
Target         == 2   \* repositories getValidRepos collects (the code's 200)
SearchPageSize == 2   \* repositories per search page (the query asks for `first: 10`)
MaxSearchPages == 2   \* search pages the API serves before hasNextPage must be false

(***************************************************************************)
(* Program constants.                                                      *)
(***************************************************************************)
Retries      == 3      \* request(..., retries=3, ...)
BaseDelay    == 5      \* request(..., delay=5)
RateLimitNap == 60     \* time.sleep(60)
MinSeconds   == 3600   \* total_seconds() < 3600
HttpOk       == 200    \* response.status_code == 200
MinPRs       == 100    \* get_repos.countPRs: pr_count >= 100

(***************************************************************************)
(* Timestamps.  The API sends ISO-8601 strings or null; a value is None,   *)
(* a string dateutil cannot parse, or a parseable instant (in seconds).    *)
(***************************************************************************)
NoneTs   == [tag |-> "none", sec |-> 0]
BadTs    == [tag |-> "bad",  sec |-> 0]
Iso(t)   == [tag |-> "iso",  sec |-> t]

\* `x` in a boolean context (`if pr['mergedAt']`, `if not closed_time_str`).
Truthy(ts) == ts.tag # "none"

\* parser.parse(x): a datetime, or TypeError (None) / ValueError (unparseable).
ParseRaises(ts) == ts.tag # "iso"
ParseValue(ts)  == ts.sec

(***************************************************************************)
(* PR nodes as returned by the API.  `number` is assigned by the server    *)
(* from the node's position in the repository's listing.                   *)
(***************************************************************************)
NodeKinds ==
  { [reviews |-> 1, createdAt |-> Iso(0), closedAt |-> Iso(7200), mergedAt |-> Iso(7200), body |-> "fix"],
    [reviews |-> 2, createdAt |-> Iso(0), closedAt |-> Iso(3600), mergedAt |-> NoneTs,    body |-> ""],
    [reviews |-> 0, createdAt |-> Iso(0), closedAt |-> Iso(7200), mergedAt |-> Iso(7200), body |-> "fix"],
    [reviews |-> 1, createdAt |-> Iso(0), closedAt |-> Iso(7200), mergedAt |-> Iso(3599), body |-> "fix"],
    [reviews |-> 1, createdAt |-> Iso(0), closedAt |-> Iso(3599), mergedAt |-> NoneTs,    body |-> "fix"],
    [reviews |-> 1, createdAt |-> Iso(0), closedAt |-> NoneTs,    mergedAt |-> NoneTs,    body |-> "fix"],
    [reviews |-> 1, createdAt |-> BadTs,  closedAt |-> Iso(7200), mergedAt |-> Iso(7200), body |-> "fix"],
    [reviews |-> 1, createdAt |-> Iso(0), closedAt |-> Iso(7200), mergedAt |-> BadTs,     body |-> "fix"] }

ValidMerged == [reviews |-> 1, createdAt |-> Iso(0), closedAt |-> Iso(7200), mergedAt |-> Iso(7200), body |-> "fix"]
ValidClosed == [reviews |-> 2, createdAt |-> Iso(0), closedAt |-> Iso(3600), mergedAt |-> NoneTs,    body |-> ""]
NoReviews   == [reviews |-> 0, createdAt |-> Iso(0), closedAt |-> Iso(7200), mergedAt |-> Iso(7200), body |-> "fix"]

\* The node lists a page can carry in this model: no node; one node of any
\* kind (the closed, unmerged one-hour PR comes second on its page); a merged
\* two-hour PR followed by an unreviewed one; an unreviewed PR followed by a
\* closed, unmerged one-hour PR.
PageNodes ==
  {<<>>} \cup {<<n>> : n \in NodeKinds \ {ValidClosed}}
         \cup {<<ValidMerged, NoReviews>>, <<NoReviews, ValidClosed>>}

(***************************************************************************)
(* HTTP outcomes of requests.post.                                         *)
(*   kind "exc"  : RequestException / JSONDecodeError                      *)
(*   kind "http" : a response with a status code; for 200 the parsed body: *)
(*     errors     : <<>> when the body has no 'errors' key, <<list>> else  *)
(*                  (each error given by its 'type', "" when it has none)  *)
(*     repository : "null" (data.repository missing or null),              *)
(*                  "noprs" (repository without pullRequests), "page"      *)
(*   The nodes of a page are not looked at by request: they are drawn      *)
(*   where processRepo reads them (HandlePage).                            *)
(***************************************************************************)
NoPage == [repository |-> "null", hasNextPage |-> FALSE]

ErrorLists ==
  { <<"RATE_LIMITED">>, <<"FORBIDDEN", "RATE_LIMITED">>, <<"NOT_FOUND">>, <<"">>, <<>> }

Responses ==
       { [kind |-> "exc",  status |-> 0,   errors |-> <<>>, data |-> NoPage] }
  \cup { [kind |-> "http", status |-> s,   errors |-> <<>>, data |-> NoPage] : s \in {500, 403} }
  \cup { [kind |-> "http", status |-> HttpOk, errors |-> <<e>>, data |-> NoPage] : e \in ErrorLists }
  \cup { [kind |-> "http", status |-> HttpOk, errors |-> <<>>,
          data |-> [repository |-> r, hasNextPage |-> FALSE]] : r \in {"null", "noprs"} }
  \cup { [kind |-> "http", status |-> HttpOk, errors |-> <<>>,
          data |-> [repository |-> "page", hasNextPage |-> h]] : h \in BOOLEAN }

\* 'errors' in json_response
HasErrors(resp) == resp.errors # <<>>

\* any("RATE_LIMITED" in e.get('type', '') for e in json_response['errors'])
RateLimited(resp) ==
  /\ HasErrors(resp)
  /\ \E k \in 1..Len(resp.errors[1]) : resp.errors[1][k] = "RATE_LIMITED"

\* The except branch or the else branch of `if response.status_code == 200`.
TransportFailure(resp) == resp.kind = "exc" \/ resp.status # HttpOk

(***************************************************************************)
(* request (get_prs.py): one iteration of the retry loop per HTTP request. *)
(***************************************************************************)
\* What came back, as the call history records it: "fail" for an exception
\* or a status other than 200, "rate" for a 200 whose error list names
\* RATE_LIMITED, "err" for a 200 with any other error list, "ok" otherwise.
Observed(resp) ==
  CASE resp.kind = "exc" \/ resp.status # 200 -> "fail"
    [] resp.kind = "http" /\ resp.status = 200 /\ resp.errors # <<>> ->
         IF "RATE_LIMITED" \in {resp.errors[1][k] : k \in 1..Len(resp.errors[1])}
         THEN "rate" ELSE "err"
    [] OTHER -> "ok"

\* Mutant: an application error that is not a rate limit is retried like a failure.
Classify_ErrorsRetried(resp) ==
  IF TransportFailure(resp) THEN "fail"
  ELSE IF HasErrors(resp) THEN (IF RateLimited(resp) THEN "rate" ELSE "fail")
  ELSE "ok"

\* What the body of the loop does with a response.
Classify(resp) ==
  IF TransportFailure(resp) THEN "fail"
  ELSE IF HasErrors(resp) THEN (IF RateLimited(resp) THEN "rate" ELSE "err")
  ELSE "ok"

\* Mutant: no cooldown after a rate-limited response.
SleepAfter_NoCooldown(kind, d) == IF kind = "fail" THEN d ELSE 0

\* time.sleep(...) performed in the iteration (0: none).
SleepAfter(kind, d) ==
  CASE kind = "fail" -> d
    [] kind = "rate" -> RateLimitNap
    [] OTHER         -> 0

\* Mutant: the delay grows by the base instead of doubling.
NextDelay_Linear(kind, d) == IF kind = "fail" THEN d + BaseDelay ELSE d

\* delay *= 2 is reached only past the try block, i.e. after a failure.
NextDelay(kind, d) == IF kind = "fail" THEN d * 2 ELSE d

\* Mutant: a rate-limited response does not move the loop forward.
Returns_RateLimitFree(kind, att) ==
  kind \in {"ok", "err"} \/ (kind = "fail" /\ att + 1 >= Retries)

\* The call returns in this iteration: `return json_response`, `return None`
\* on a non-rate-limit error, or the for loop running out (both the fall
\* through after a failure and `continue` move to the next value of attempt).
Returns(kind, att) == kind \in {"ok", "err"} \/ att + 1 >= Retries

NoneRet    == [tag |-> "None",    data |-> NoPage, endCursor |-> <<>>]
PendingRet == [tag |-> "pending", data |-> NoPage, endCursor |-> <<>>]

\* The value request returns when it returns in this iteration.
RetValue(kind, json) == IF kind = "ok" THEN json ELSE NoneRet

(***************************************************************************)
(* The API server: pullRequests(first: 100, after: $cursor).  The cursor   *)
(* it hands out is the index of the page served; PR numbers follow the     *)
(* position in the listing, so no PR is served twice.                      *)
(***************************************************************************)
PageIndex(cur) == IF cur = <<>> THEN 1 ELSE cur[1] + 1

Numbered(nodes, page) ==
  [k \in 1..Len(nodes) |->
     [number |-> (page - 1) * PageSize + k, reviews |-> nodes[k].reviews,
      createdAt |-> nodes[k].createdAt, closedAt |-> nodes[k].closedAt,
      mergedAt |-> nodes[k].mergedAt, body |-> nodes[k].body]]

\* response.json() of a 200 answer to the query sent with variables vs.
Json(resp, vs) ==
  [tag |-> "json", data |-> resp.data, endCursor |-> <<PageIndex(vs.cursor)>>]

(***************************************************************************)
(* processRepo: the per-node filters and the projection to a CSV record.   *)
(***************************************************************************)
\* closed_time_str = pr['mergedAt'] if pr['mergedAt'] else pr['closedAt']
ClosedTimeStr(pr) == IF Truthy(pr.mergedAt) THEN pr.mergedAt ELSE pr.closedAt

\* Mutant: the review-count filter is missing.
KeepNode_NoReviewCheck(pr) ==
  /\ ~ParseRaises(pr.createdAt)
  /\ Truthy(ClosedTimeStr(pr))
  /\ ~ParseRaises(ClosedTimeStr(pr))
  /\ ~(ParseValue(ClosedTimeStr(pr)) - ParseValue(pr.createdAt) < MinSeconds)

\* Mutant: the duration is compared with <= 0 instead of < 3600.
KeepNode_NoMinimum(pr) ==
  /\ pr.reviews # 0
  /\ ~ParseRaises(pr.createdAt)
  /\ Truthy(ClosedTimeStr(pr))
  /\ ~ParseRaises(ClosedTimeStr(pr))
  /\ ~(ParseValue(ClosedTimeStr(pr)) - ParseValue(pr.createdAt) <= 0)

\* The node survives every `continue` of the loop body.
KeepNode(pr) ==
  /\ pr.reviews # 0
  /\ ~ParseRaises(pr.createdAt)
  /\ Truthy(ClosedTimeStr(pr))
  /\ ~ParseRaises(ClosedTimeStr(pr))
  /\ ~(ParseValue(ClosedTimeStr(pr)) - ParseValue(pr.createdAt) < MinSeconds)

\* this_pr (changed_files, additions, deletions, participants and comments
\* are copied from the node like pr_number and are left out).
ThisPr(owner, name, pr) ==
  [repo_owner |-> owner, repo_name |-> name, pr_number |-> pr.number,
   created_at |-> pr.createdAt, closed_at |-> pr.closedAt, merged_at |-> pr.mergedAt,
   body_chars |-> IF pr.body # "" THEN Len(pr.body) ELSE 0,
   reviews |-> pr.reviews]

RECURSIVE ValidPrs_StopAtDiscard(_, _, _, _)
\* Mutant: a discarded node ends the loop over the page (break for continue).
ValidPrs_StopAtDiscard(owner, name, nodes, k) ==
  IF k > Len(nodes) \/ ~KeepNode(nodes[k]) THEN <<>>
  ELSE <<ThisPr(owner, name, nodes[k])>> \o ValidPrs_StopAtDiscard(owner, name, nodes, k + 1)

RECURSIVE ValidPrs(_, _, _, _)
\* The records the `for pr in prs_data['nodes']` loop appends, from node k on.
ValidPrs(owner, name, nodes, k) ==
  IF k > Len(nodes) THEN <<>>
  ELSE (IF KeepNode(nodes[k]) THEN <<ThisPr(owner, name, nodes[k])>> ELSE <<>>)
       \o ValidPrs(owner, name, nodes, k + 1)

\* `if not response_json or not ...get('repository')` / `if not repo_data.get('pullRequests')`
NoData(r) == r.tag = "None" \/ r.data.repository \in {"null", "noprs"}

(***************************************************************************)
(* The output CSV.  A line is the header written by writeheader() or one   *)
(* record written by writerows().                                          *)
(***************************************************************************)
HeaderLine == [kind |-> "header"]
RowLine(rec) == [kind |-> "row", rec |-> rec]

RowsOf(lines) == SelectSeq(lines, LAMBDA l : l.kind = "row")

\* f"{owner}/{name}"
FullName(owner, name) == owner \o "/" \o name

\* Mutant: the progress set is always empty.
GetValidRepos_NoProgress(f) == {}

\* getValidRepos(filename).  pandas takes the first line as the column
\* names: a file that does not start with the header lacks the columns asked
\* for with usecols and read_csv raises ValueError, which is not among the
\* exceptions caught.  A header line further down is read as a row.
GetValidReposRaises(f) ==
  f.exists /\ f.lines # <<>> /\ f.lines[1].kind # "header"

GetValidRepos(f) ==
  IF ~f.exists THEN {}
  ELSE IF f.lines = <<>> THEN {}
  ELSE { IF f.lines[k].kind = "header" THEN FullName("repo_owner", "repo_name")
         ELSE FullName(f.lines[k].rec.repo_owner, f.lines[k].rec.repo_name) :
         k \in 2..Len(f.lines) }

\* Mutant: writeheader() is called at every write.
Written_AlwaysHeader(f, recs) ==
  <<HeaderLine>> \o [k \in 1..Len(recs) |-> RowLine(recs[k])]

\* Mutant: writerows leaves out the first record.
Written_SkipFirst(f, recs) ==
  (IF ~f.exists \/ f.lines = <<>> THEN <<HeaderLine>> ELSE <<>>)
  \o [k \in 1..(Len(recs) - 1) |-> RowLine(recs[k + 1])]

\* What the `with open(OUTPUT_FILENAME, 'a', ...)` block adds to the file.
Written(f, recs) ==
  (IF ~f.exists \/ f.lines = <<>> THEN <<HeaderLine>> ELSE <<>>)
  \o [k \in 1..Len(recs) |-> RowLine(recs[k])]

\* Mutant: the file is opened with 'w'.
Appended_Truncating(f, added) == [exists |-> TRUE, lines |-> added]

\* The file after open(..., 'a') and the lines `added`.
Appended(f, added) == [exists |-> TRUE, lines |-> f.lines \o added]

KeyOf(rec) == <<rec.repo_owner, rec.repo_name, rec.pr_number>>

(***************************************************************************)
(* Inputs.                                                                 *)
(***************************************************************************)
RepoAB == [owner |-> "a", name |-> "b"]
RepoCD == [owner |-> "c", name |-> "d"]

\* Contents of repos.csv: two repositories, or one repository listed twice.
CandidateLists == { <<RepoAB, RepoCD>>, <<RepoAB, RepoAB>> }

RepoNames == { FullName(c[k].owner, c[k].name) : c \in CandidateLists, k \in 1..2 }

NoFile    == [exists |-> FALSE, lines |-> <<>>]
EmptyFile == [exists |-> TRUE,  lines |-> <<>>]

\* A file whose first line names other columns than those of the output
\* (it lacks repo_owner and repo_name).
ForeignFile == [exists |-> TRUE, lines |-> <<[kind |-> "columns"]>>]

\* The file an earlier collection of a/b left: the header and one row.
SavedFile ==
  [exists |-> TRUE,
   lines  |-> <<HeaderLine, RowLine(ThisPr("a", "b", Numbered(<<ValidMerged>>, 1)[1]))>>]

\* The states of the output file a run of main can find at start-up.
StartFiles == {NoFile, EmptyFile, SavedFile, ForeignFile}

NoVariables == [owner |-> "", name |-> "", cursor |-> <<>>]

histvars == <<tracking, linesAtStart, prevCompleted, completedIn>>
mainvars == <<candidates, run, processed_repos, idx>>
repovars == <<acc, cursor, page_count, has_next_page>>
reqvars  == <<variables, attempt, delay, calllog, ret>>
discvars == <<dpc, valid_repos, invalid_repos, search_cursor, repos, page_info, edge,
              examined, lastReq>>

NoPageInfo == [hasNextPage |-> FALSE, endCursor |-> <<>>]
NoRequest  == [q |-> "none", target |-> 0, out |-> "none", tries |-> 0, n |-> 0]

\* The locals of getValidRepos (get_repos.py) before its while loop.
DiscoveryLocals ==
  /\ valid_repos = <<>> /\ invalid_repos = 0 /\ search_cursor = <<>>
  /\ repos = <<>> /\ page_info = NoPageInfo /\ edge = 0
  /\ examined = <<>> /\ lastReq = NoRequest

\* Locals of processRepo and request while neither is running.
RepoIdle ==
  /\ acc' = <<>> /\ cursor' = <<>> /\ page_count' = 0 /\ has_next_page' = TRUE
ReqIdle ==
  /\ variables' = NoVariables /\ attempt' = 0 /\ delay' = BaseDelay
  /\ calllog' = <<>> /\ ret' = PendingRet

\* request(QUERY_PRS, variables) is entered: the locals before the first post.
ReqEnter(owner, name, cur) ==
  /\ variables' = [owner |-> owner, name |-> name, cursor |-> cur]
  /\ attempt' = 0 /\ delay' = BaseDelay /\ calllog' = <<>> /\ ret' = PendingRet

\* The collection stage before its first run.
PipelineInit(track, files) ==
  /\ tracking = track
  /\ lastPage = <<>>
  /\ candidates \in CandidateLists
  /\ file \in files
  /\ run = 0 /\ pc = "init" /\ processed_repos = {} /\ idx = 1
  /\ acc = <<>> /\ cursor = <<>> /\ page_count = 0 /\ has_next_page = TRUE
  /\ variables = NoVariables /\ attempt = 0 /\ delay = BaseDelay
  /\ calllog = <<>> /\ ret = PendingRet
  /\ linesAtStart = 0 /\ prevCompleted = FALSE
  /\ completedIn = [n \in RepoNames |-> 0]

\* get_prs.py is run from such a file; get_repos.py is not running.
InitFrom(track, files) ==
  /\ PipelineInit(track, files)
  /\ dpc = "off" /\ DiscoveryLocals

\* The collection starts with no output file or an empty one.
InitWith(track) == InitFrom(track, {NoFile, EmptyFile})

Init == InitWith(FALSE)

\* The same program with the completion history recorded.
InitTracking == InitWith(TRUE)

\* The same program started on any of the start-up files.
InitAnyFile == InitFrom(FALSE, StartFiles)

\* The collection of the repository is complete: recorded once.
Complete(name) ==
  IF tracking /\ completedIn[name] = 0
  THEN [completedIn EXCEPT ![name] = run] ELSE completedIn

CurrentRepo == candidates[idx]
CurrentName == FullName(CurrentRepo.owner, CurrentRepo.name)

(***************************************************************************)
(* main                                                                    *)
(***************************************************************************)
\* main is started: repos.csv is read and the progress set is computed.
\* An exception getValidRepos does not catch ends the process ("raised").
StartRun ==
  /\ pc \in {"init", "done", "killed", "raised"}
  /\ run < MaxRuns
  /\ run' = run + 1
  /\ IF GetValidReposRaises(file)
     THEN pc' = "raised" /\ UNCHANGED processed_repos
     ELSE pc' = "loop" /\ processed_repos' = GetValidRepos(file)
  /\ idx' = 1
  /\ linesAtStart' = Len(file.lines)
  /\ prevCompleted' = (pc = "done")
  /\ lastPage' = <<>>
  /\ UNCHANGED <<candidates, file, tracking, completedIn, repovars, reqvars>>
  /\ UNCHANGED discvars

\* `if repo_full_name in processed_repos: continue`
SkipProcessed ==
  /\ pc = "loop" /\ idx <= Len(candidates)
  /\ CurrentName \in processed_repos
  /\ idx' = idx + 1
  /\ lastPage' = <<>>
  /\ UNCHANGED <<candidates, file, run, pc, processed_repos, repovars, reqvars, histvars>>
  /\ UNCHANGED discvars

\* processRepo(owner, name) is called and reaches its first request.
BeginRepo ==
  /\ pc = "loop" /\ idx <= Len(candidates)
  /\ CurrentName \notin processed_repos
  /\ acc' = <<>> /\ cursor' = <<>> /\ has_next_page' = TRUE /\ page_count' = 1
  /\ ReqEnter(CurrentRepo.owner, CurrentRepo.name, <<>>)
  /\ pc' = "request"
  /\ lastPage' = <<>>
  /\ UNCHANGED <<file, mainvars, histvars>>
  /\ UNCHANGED discvars

\* The candidate loop is over: "Coleta concluída."
Finish ==
  /\ pc = "loop" /\ idx > Len(candidates)
  /\ pc' = "done"
  /\ lastPage' = <<>>
  /\ UNCHANGED <<file, mainvars, repovars, reqvars, histvars>>
  /\ UNCHANGED discvars

(***************************************************************************)
(* request: one pass through the body of the retry loop.                   *)
(***************************************************************************)
Attempt ==
  /\ pc = "request"
  /\ \E resp \in Responses :
       /\ resp.data.hasNextPage => PageIndex(variables.cursor) < MaxPages
       /\ LET kind == Classify(resp) IN
            /\ calllog' = Append(calllog, [kind |-> Observed(resp),
                                           slept |-> SleepAfter(kind, delay)])
            /\ delay' = NextDelay(kind, delay)
            /\ attempt' = attempt + 1
            /\ IF Returns(kind, attempt)
               THEN ret' = RetValue(kind, Json(resp, variables)) /\ pc' = "returned"
               ELSE ret' = ret /\ pc' = "request"
  /\ lastPage' = <<>>
  /\ UNCHANGED <<file, mainvars, repovars, variables, histvars>>
  /\ UNCHANGED discvars

(***************************************************************************)
(* processRepo: the rest of the while body after request has returned,     *)
(* then either the next request or the return to main (up to the write).   *)
(***************************************************************************)
\* valid_prs_for_this_repo after the page in r, with these nodes, has been handled.
AccAfter(r, nodes) ==
  IF NoData(r) THEN acc
  ELSE acc \o ValidPrs(variables.owner, variables.name,
                       Numbered(nodes, PageIndex(variables.cursor)), 1)

\* has_next_page after the page in r has been handled (a break leaves it).
HasNextAfter(r) == IF NoData(r) THEN has_next_page ELSE r.data.hasNextPage

\* Mutant: the loop is left after every page.
Continues_OnePage(r) == FALSE

\* The while loop goes round again.
Continues(r) == ~NoData(r) /\ r.data.hasNextPage

HandlePage ==
  /\ pc = "returned"
  /\ \E nodes \in (IF NoData(ret) THEN {<<>>} ELSE PageNodes) :
       /\ lastPage' = Numbered(nodes, PageIndex(variables.cursor))
       /\ IF Continues(ret)
          THEN \* next iteration of the while loop, up to its request
               /\ acc' = AccAfter(ret, nodes)
               /\ has_next_page' = HasNextAfter(ret)
               /\ cursor' = ret.endCursor
               /\ page_count' = page_count + 1
               /\ ReqEnter(variables.owner, variables.name, ret.endCursor)
               /\ pc' = "request"
               /\ UNCHANGED <<idx, completedIn>>
          ELSE IF AccAfter(ret, nodes) # <<>>
          THEN \* processRepo returns records: `if repo_prs:` is taken
               /\ acc' = AccAfter(ret, nodes)
               /\ has_next_page' = HasNextAfter(ret)
               /\ cursor' = IF NoData(ret) THEN cursor ELSE ret.endCursor
               /\ page_count' = page_count
               /\ ReqIdle
               /\ pc' = "write"
               /\ UNCHANGED <<idx, completedIn>>
          ELSE \* processRepo returns []: "Nenhum PR válido encontrado"
               /\ RepoIdle /\ ReqIdle
               /\ pc' = "loop" /\ idx' = idx + 1
               /\ completedIn' = IF HasNextAfter(ret) THEN completedIn
                                 ELSE Complete(CurrentName)
  /\ UNCHANGED <<candidates, file, run, processed_repos, tracking, linesAtStart, prevCompleted>>
  /\ UNCHANGED discvars

(***************************************************************************)
(* main: the incremental save.                                             *)
(***************************************************************************)
Write ==
  /\ pc = "write"
  /\ file' = Appended(file, Written(file, acc))
  /\ completedIn' = IF has_next_page THEN completedIn ELSE Complete(CurrentName)
  /\ idx' = idx + 1
  /\ pc' = "loop"
  /\ RepoIdle
  /\ lastPage' = <<>>
  /\ UNCHANGED <<candidates, run, processed_repos, reqvars, tracking, linesAtStart, prevCompleted>>
  /\ UNCHANGED discvars

\* The process is terminated inside the with block: a proper prefix of the
\* lines has reached the file (which open(..., 'a') has created).
KillInWrite ==
  /\ pc = "write"
  /\ \E n \in 0..(Len(Written(file, acc)) - 1) :
       file' = Appended(file, SubSeq(Written(file, acc), 1, n))
  /\ pc' = "killed"
  /\ RepoIdle
  /\ lastPage' = <<>>
  /\ UNCHANGED <<mainvars, reqvars, histvars>>
  /\ UNCHANGED discvars

\* The process is terminated anywhere else.
Kill ==
  /\ pc \in {"loop", "request", "returned", "write"}
  /\ pc' = "killed"
  /\ RepoIdle /\ ReqIdle
  /\ lastPage' = <<>>
  /\ UNCHANGED <<file, mainvars, histvars>>
  /\ UNCHANGED discvars

Next ==
  \/ StartRun
  \/ SkipProcessed
  \/ BeginRepo
  \/ Finish
  \/ Attempt
  \/ HandlePage
  \/ Write
  \/ KillInWrite
  \/ Kill

Spec == Init /\ [][Next]_vars

SpecTracking == InitTracking /\ [][Next]_vars

SpecAnyFile == InitAnyFile /\ [][Next]_vars

(***************************************************************************)
(* get_repos.py: the discovery stage.  One step per HTTP request: the      *)
(* request, what countPRs or getValidRepos does with its result and the    *)
(* loop bookkeeping up to the next request or the return.                  *)
(*                                                                         *)
(* HTTP outcomes of requests.post in get_repos.request:                    *)
(*   kind "exc"  : requests.post raises (timeout, connection error) or     *)
(*                 json.loads raises on the body of a 200 answer           *)
(*   kind "http" : a response with a status code; for 200 the parsed body  *)
(***************************************************************************)
NoSearchData == [search |-> "null", count |-> 0, hasNextPage |-> FALSE]
NoRepoData   == [repository |-> "null", totalCount |-> 0]

\* Answers to QUERY_SEARCH_REPOS: a page has `count` edges; a page that is
\* not the last one is full.
SearchResponses ==
       { [kind |-> "exc",  status |-> 0,   errors |-> <<>>, data |-> NoSearchData] }
  \cup { [kind |-> "http", status |-> 502, errors |-> <<>>, data |-> NoSearchData] }
  \cup { [kind |-> "http", status |-> HttpOk, errors |-> <<<<"RATE_LIMITED">>>>, data |-> NoSearchData] }
  \cup { [kind |-> "http", status |-> HttpOk, errors |-> <<>>, data |-> NoSearchData] }
  \cup { [kind |-> "http", status |-> HttpOk, errors |-> <<>>,
          data |-> [search |-> "page", count |-> c, hasNextPage |-> FALSE]] : c \in 0..SearchPageSize }
  \cup { [kind |-> "http", status |-> HttpOk, errors |-> <<>>,
          data |-> [search |-> "page", count |-> SearchPageSize, hasNextPage |-> TRUE]] }

\* Answers to QUERY_CHECK_PRS.
CountResponses ==
       { [kind |-> "exc",  status |-> 0,   errors |-> <<>>, data |-> NoRepoData] }
  \cup { [kind |-> "http", status |-> 502, errors |-> <<>>, data |-> NoRepoData] }
  \cup { [kind |-> "http", status |-> HttpOk, errors |-> <<<<"NOT_FOUND">>>>, data |-> NoRepoData] }
  \cup { [kind |-> "http", status |-> HttpOk, errors |-> <<>>, data |-> NoRepoData] }
  \cup { [kind |-> "http", status |-> HttpOk, errors |-> <<>>,
          data |-> [repository |-> "repo", totalCount |-> c]] : c \in {MinPRs - 1, MinPRs} }

\* What came back, as the history records it: "exc" for an exception,
\* "status" for a status other than 200, "err" for a 200 with an error list,
\* "nodata" for a 200 without the data asked for, "ok" otherwise.
DiscObserved(resp) ==
  CASE resp.kind = "exc"     -> "exc"
    [] resp.status # 200     -> "status"
    [] resp.errors # <<>>    -> "err"
    [] resp.data \in {NoSearchData, NoRepoData} -> "nodata"
    [] OTHER                 -> "ok"

\* request (get_repos.py) has no try block: an exception of requests.post or
\* json.loads leaves request, countPRs, getValidRepos and main.
DiscoveryRaises(resp) == resp.kind = "exc"

NoneJson == [tag |-> "None"]

\* request (get_repos.py): the value returned when nothing was raised.
DiscoveryRequest(resp) ==
  IF resp.status = HttpOk
  THEN (IF HasErrors(resp) THEN NoneJson ELSE [tag |-> "json", data |-> resp.data])
  ELSE NoneJson

\* Mutant: a repository needs more than 100 PRs.
CountPRs_Strict(r) ==
  IF r.tag = "json" /\ r.data.repository # "null"
  THEN r.data.totalCount > MinPRs
  ELSE FALSE

\* countPRs(owner, name), given what request returned.
CountPRs(r) ==
  IF r.tag = "json" /\ r.data.repository # "null"
  THEN r.data.totalCount >= MinPRs
  ELSE FALSE

\* `if not search_response or not search_response.get('data', {}).get('search')`
NoSearch(r) == r.tag = "None" \/ r.data.search = "null"

\* The k-th repository of the ranked search, named by its rank.
SearchHit(k) == [name |-> k, owner |-> k]

\* search_response['data']['search']['edges'] of the page after cursor cur.
Edges(resp, cur) ==
  [k \in 1..resp.data.count |-> SearchHit((PageIndex(cur) - 1) * SearchPageSize + k)]

\* search_response['data']['search']['pageInfo']
PageInfo(resp, cur) ==
  [hasNextPage |-> resp.data.hasNextPage, endCursor |-> <<PageIndex(cur)>>]

\* Mutant: the loop goes on until the list is longer than the target.
WhileCond_OneMore(v) == Len(v) <= Target

\* `while len(valid_repos) < 200`
WhileCond(v) == Len(v) < Target

\* Mutant: the for loop is never left early.
BreakCond_Never(v) == FALSE

\* `if len(valid_repos) >= 200: break`
BreakCond(v) == Len(v) >= Target

\* The request being issued, for the history.
Issued(q, target, resp) ==
  [q |-> q, target |-> target, out |-> DiscObserved(resp),
   tries |-> IF lastReq.q = q /\ lastReq.target = target THEN lastReq.tries + 1 ELSE 1,
   n |-> lastReq.n + 1]

\* The end of the while body after the for loop over a page with this
\* page_info, the list being v: the hasNextPage test, the cursor update and
\* the loop condition.
AfterEdges(v, info) ==
  IF ~info.hasNextPage
  THEN dpc' = "returned" /\ search_cursor' = search_cursor
  ELSE /\ search_cursor' = info.endCursor
       /\ dpc' = IF WhileCond(v) THEN "search" ELSE "returned"

\* get_repos.py is run: getValidRepos is at its first search request
\* (get_prs.py is not running).
InitDiscovery ==
  /\ PipelineInit(FALSE, {NoFile}) /\ candidates = <<RepoAB, RepoCD>>
  /\ dpc = "search" /\ DiscoveryLocals

pipevars == <<candidates, file, run, pc, processed_repos, idx, repovars, reqvars,
              lastPage, histvars>>

\* request(QUERY_SEARCH_REPOS, search_vars) and the handling of its result.
SearchPage ==
  /\ dpc = "search"
  /\ \E resp \in SearchResponses :
       /\ resp.data.hasNextPage => PageIndex(search_cursor) < MaxSearchPages
       /\ lastReq' = Issued("search", PageIndex(search_cursor), resp)
       /\ IF DiscoveryRaises(resp)
          THEN /\ dpc' = "raised"
               /\ UNCHANGED <<search_cursor, repos, page_info, edge>>
          ELSE IF NoSearch(DiscoveryRequest(resp))
          THEN /\ dpc' = "returned"
               /\ UNCHANGED <<search_cursor, repos, page_info, edge>>
          ELSE /\ repos' = Edges(resp, search_cursor)
               /\ page_info' = PageInfo(resp, search_cursor)
               /\ IF Edges(resp, search_cursor) = <<>>
                  THEN edge' = 0 /\ AfterEdges(valid_repos, PageInfo(resp, search_cursor))
                  ELSE edge' = 1 /\ dpc' = "qualify" /\ search_cursor' = search_cursor
  /\ UNCHANGED <<valid_repos, invalid_repos, examined>>
  /\ UNCHANGED pipevars

\* One iteration of `for repo_edge in repos`: countPRs(owner, name) and the
\* branch taken on its result.
Qualify ==
  /\ dpc = "qualify"
  /\ \E resp \in CountResponses :
       /\ lastReq' = Issued("count", repos[edge].name, resp)
       /\ IF DiscoveryRaises(resp)
          THEN /\ dpc' = "raised"
               /\ UNCHANGED <<valid_repos, invalid_repos, search_cursor, edge, examined>>
          ELSE LET ok == CountPRs(DiscoveryRequest(resp))
                   v  == IF ok THEN Append(valid_repos, repos[edge]) ELSE valid_repos
               IN /\ valid_repos' = v
                  /\ invalid_repos' = IF ok THEN invalid_repos ELSE invalid_repos + 1
                  /\ examined' = Append(examined,
                        [repo |-> repos[edge],
                         told |-> IF DiscObserved(resp) = "ok" /\ resp.data.repository = "repo"
                                  THEN resp.data.totalCount ELSE -1])
                  /\ IF (ok /\ BreakCond(v)) \/ edge = Len(repos)
                     THEN edge' = edge /\ AfterEdges(v, page_info)
                     ELSE edge' = edge + 1 /\ dpc' = "qualify" /\ search_cursor' = search_cursor
  /\ UNCHANGED <<repos, page_info>>
  /\ UNCHANGED pipevars

NextDiscovery ==
  \/ SearchPage
  \/ Qualify

SpecDiscovery == InitDiscovery /\ [][NextDiscovery]_vars

(***************************************************************************)
(* Properties.                                                             *)
(***************************************************************************)
IsPrefix(s, t) == Len(s) <= Len(t) /\ SubSeq(t, 1, Len(s)) = s

\* The records in the file, and those of its first n lines.
FileRecs == [k \in 1..Len(RowsOf(file.lines)) |-> RowsOf(file.lines)[k].rec]
KeysBefore(n) ==
  { KeyOf(file.lines[k].rec) : k \in {j \in 1..n : file.lines[j].kind = "row"} }

\* Every record processRepo holds or main has written.
OutputRecs == { acc[k] : k \in 1..Len(acc) } \cup { FileRecs[k] : k \in 1..Len(FileRecs) }

\* The responses of the current call of request were, in order, these kinds.
CallKinds == [k \in 1..Len(calllog) |-> calllog[k].kind]

\* C1: in a run started on the file a completed run left behind (same
\* candidate list), no row appended by the run has the (repo_owner,
\* repo_name, pr_number) of a row that was in the file when the run started.
C1_ResumeAppendsNoExistingKey ==
  prevCompleted =>
    \A k \in (linesAtStart + 1)..Len(file.lines) :
      file.lines[k].kind = "row" => KeyOf(file.lines[k].rec) \notin KeysBefore(linesAtStart)

\* A second run, after a completed first one that saved rows, has appended rows.
C1_Witness ==
  /\ prevCompleted /\ run = 2
  /\ KeysBefore(linesAtStart) # {}
  /\ Len(file.lines) > linesAtStart

\* C2: no record with a review count of 0 is held by processRepo or is in
\* the output file.
C2_NoUnreviewedRecord == \A r \in OutputRecs : r.reviews # 0

\* processRepo has just read a page with an unreviewed PR and a reviewed one
\* and holds a record.
C2_Witness ==
  /\ \E k \in 1..Len(lastPage) : lastPage[k].reviews = 0
  /\ \E k \in 1..Len(lastPage) : lastPage[k].reviews # 0
  /\ acc # <<>>

\* The end time of a record: merged_at when present, otherwise closed_at.
EndOf(r) == IF r.merged_at.tag # "none" THEN r.merged_at ELSE r.closed_at

\* C3: no record whose end time (merged_at when present, otherwise
\* closed_at) is less than 3600 seconds after created_at, and no record with
\* neither merged_at nor closed_at, is held by processRepo or is in the file.
C3_NoShortOrOpenRecord ==
  \A r \in OutputRecs :
    /\ ~(r.merged_at.tag = "none" /\ r.closed_at.tag = "none")
    /\ ~(/\ EndOf(r).tag = "iso" /\ r.created_at.tag = "iso"
         /\ EndOf(r).sec - r.created_at.sec < 3600)

\* processRepo has just read a page whose PR was merged after 3599 seconds
\* (and closed later) or has no end time, after it had kept a record of a
\* PR that was closed without merge after exactly 3600 seconds.
C3_Witness ==
  /\ Len(lastPage) = 1
  /\ \/ lastPage[1].mergedAt = Iso(3599)
     \/ lastPage[1].mergedAt = NoneTs /\ lastPage[1].closedAt = NoneTs
  /\ \E k \in 1..Len(acc) : acc[k].merged_at = NoneTs /\ acc[k].closed_at = Iso(3600)

\* C4: every step leaves the lines already in the file in place, unchanged
\* and in order: a write only adds lines at the end.
C4_AppendOnly ==
  [][/\ file.exists => file'.exists
     /\ IsPrefix(file.lines, file'.lines)]_vars

\* Two writes of one run: the file holds rows of both candidates.
C4_Witness ==
  /\ linesAtStart = 0
  /\ \E j, k \in 1..Len(FileRecs) : FileRecs[j].repo_owner # FileRecs[k].repo_owner

\* C5: a call of request never issues a 4th HTTP request; while only
\* transport failures or non-200 statuses have come back it has slept 5,
\* then 10, then 20, one sleep after each; after the 3rd it has returned None.
C5_BackoffGrowth ==
  /\ Len(calllog) <= 3
  /\ \A k \in 1..Len(calllog) :
       (\A j \in 1..k : calllog[j].kind = "fail") =>
          calllog[k].slept = (CASE k = 1 -> 5 [] k = 2 -> 10 [] OTHER -> 20)
  /\ CallKinds = <<"fail", "fail", "fail">> => pc = "returned" /\ ret = NoneRet

\* A call has met 3 consecutive failures.
C5_Witness == CallKinds = <<"fail", "fail", "fail">> /\ pc = "returned"

\* C6: when a response of a call is rate limited and the next response of
\* the call is a success, the call has returned that success (not None) and
\* has slept at least 60 between the two requests.
C6_RateLimitThenSuccess ==
  \A k \in 1..(Len(calllog) - 1) :
    calllog[k].kind = "rate" /\ calllog[k + 1].kind = "ok" =>
      /\ pc = "returned" /\ ret.tag = "json" /\ k + 1 = Len(calllog)
      /\ calllog[k].slept >= 60

\* A call got a rate-limited response, then a page.
C6_Witness ==
  /\ CallKinds = <<"rate", "ok">> /\ pc = "returned"
  /\ ret.data.repository = "page"

\* Number of failures (exception or non-200 status) met by the current call.
CallFailures == Cardinality({k \in 1..Len(calllog) : calllog[k].kind = "fail"})

\* C7: a rate-limited response uses no retry slot: a call of request
\* reports None only after 3 transport failures or a non-rate-limit error,
\* never because of rate-limited responses.
C7_RateLimitNeverNone ==
  pc = "returned" /\ ret.tag = "None" =>
    CallFailures = 3 \/ calllog[Len(calllog)].kind = "err"

\* C8: a 200 response with an error list that names no RATE_LIMITED error
\* ends the call at once with None, with no further request and no sleep;
\* processRepo then stops paging the repository and main goes on to the next
\* candidate (after saving what the earlier pages gave).
C8_ErrorNotRetried ==
  /\ [](\A k \in 1..Len(calllog) :
          calllog[k].kind = "err" =>
            /\ k = Len(calllog) /\ calllog[k].slept = 0
            /\ pc = "returned" /\ ret = NoneRet)
  /\ [][pc = "returned" /\ calllog[Len(calllog)].kind = "err" =>
          \/ pc' = "killed"
          \/ pc' = "loop" /\ idx' = idx + 1 /\ acc = <<>>
          \/ pc' = "write" /\ idx' = idx /\ acc' = acc /\ acc # <<>>]_vars
  /\ [][pc = "write" => pc' = "killed" \/ (pc' = "loop" /\ idx' = idx + 1)]_vars

\* The request for a second page got NOT_FOUND-like errors after the first
\* page had given a record.
C8_Witness ==
  /\ pc = "returned" /\ calllog # <<>> /\ calllog[Len(calllog)].kind = "err"
  /\ page_count = 2 /\ acc # <<>>

\* C9: every repository in the progress set of a run was fully processed
\* before: all its pages were fetched up to hasNextPage = false and all its
\* valid records were written.
C9_ProgressOnlyFullyProcessed ==
  \A n \in RepoNames : n \in processed_repos => completedIn[n] # 0

\* C10: a run after an earlier run issues no request for a repository whose
\* collection an earlier run completed, and its first request is for the
\* first candidate whose collection no earlier run completed.
C10_NoRefetchOfCompleted ==
  pc = "request" /\ run >= 2 =>
    /\ completedIn[CurrentName] \notin 1..(run - 1)
    /\ (/\ page_count = 1 /\ calllog = <<>>
        /\ \A k \in 1..(idx - 1) :
             FullName(candidates[k].owner, candidates[k].name) \in processed_repos)
       => \A k \in 1..(idx - 1) :
            completedIn[FullName(candidates[k].owner, candidates[k].name)] \in 1..(run - 1)

\* C11: no two rows of the output file have the same (repo_owner,
\* repo_name, pr_number), whatever the candidate list and the runs.
C11_NoDuplicateKeys ==
  \A j, k \in 1..Len(FileRecs) : j # k => KeyOf(FileRecs[j]) # KeyOf(FileRecs[k])

\* The "owner/name" strings of the rows among the first n lines of the file.
RowNames(n) ==
  { FullName(file.lines[k].rec.repo_owner, file.lines[k].rec.repo_name) :
      k \in {j \in 1..n : file.lines[j].kind = "row"} }

\* C12: getValidRepos never raises, whatever file the run finds (absent,
\* empty, lacking the repo_owner/repo_name columns, well formed); the
\* progress set of a run is the set of "owner/name" strings of the rows the
\* file held when the run started (empty for an absent, empty or malformed
\* file).
C12_ProgressSetRead ==
  /\ pc # "raised"
  /\ pc \in {"loop", "request", "returned", "write", "done"} =>
       processed_repos =
         (IF file.lines # <<>> /\ file.lines[1].kind = "columns" THEN {}
          ELSE RowNames(linesAtStart))

\* The request getValidRepos (get_repos) issues next, if any.
NextQuery ==
  CASE dpc = "search"  -> [q |-> "search", target |-> PageIndex(search_cursor)]
    [] dpc = "qualify" -> [q |-> "count",  target |-> repos[edge].name]
    [] OTHER           -> [q |-> "none",   target |-> 0]

\* C13: no failed request of the discovery stage ends the process with an
\* uncaught exception, and a search or qualification request that failed at
\* transport level or with a status other than 200 is issued again while it
\* has been tried fewer than 3 times.
C13_FailedRequestRetried ==
  /\ dpc # "raised"
  /\ lastReq.out \in {"exc", "status"} /\ lastReq.tries < Retries =>
       NextQuery = [q |-> lastReq.q, target |-> lastReq.target]

\* The value request returned carries a page of pull requests.
IsPage(r) == r.tag = "json" /\ r.data.repository = "page"

\* C14: the first page request of processRepo carries cursor None and each
\* later one the endCursor of the response just handled; after a response
\* processRepo issues a further request exactly when that response was a page
\* with hasNextPage true; after a failure or a response without repository
\* data it issues no request and hands what it has accumulated to main
\* unchanged (to the write when there are records, else main moves to the
\* next candidate), and the process is never ended by an exception.
C14_Pagination ==
  /\ [][pc = "loop" /\ pc' = "request" =>
          variables'.cursor = <<>> /\ page_count' = 1]_vars
  /\ [][pc = "returned" /\ pc' = "request" =>
          /\ IsPage(ret) /\ variables'.cursor = ret.endCursor
          /\ page_count' = page_count + 1]_vars
  /\ [][pc = "returned" /\ pc' # "killed" =>
          ((pc' = "request") <=> (IsPage(ret) /\ ret.data.hasNextPage))]_vars
  /\ [][pc = "returned" /\ ~IsPage(ret) /\ pc' # "killed" =>
          IF acc # <<>> THEN pc' = "write" /\ acc' = acc /\ idx' = idx
          ELSE pc' = "loop" /\ idx' = idx + 1 /\ file' = file]_vars

\* The request for the second page, sent with the endCursor of the first,
\* has returned failure while processRepo holds records of the first page.
C14_Witness ==
  /\ pc = "returned" /\ ret.tag = "None"
  /\ page_count = 2 /\ variables.cursor = <<1>> /\ acc # <<>>

\* A node the records must cover: at least one review, createdAt and the end
\* time (mergedAt when present, otherwise closedAt) both instants, the end
\* at least 3600 seconds after the creation.
Qualifying(n) ==
  LET end == IF n.mergedAt.tag # "none" THEN n.mergedAt ELSE n.closedAt
  IN /\ n.reviews >= 1
     /\ n.createdAt.tag = "iso" /\ end.tag = "iso"
     /\ end.sec - n.createdAt.sec >= 3600

\* What identifies the node a record was made from, and the node's own.
RecordId(r) == <<r.repo_owner, r.repo_name, r.pr_number, r.created_at, r.closed_at,
                 r.merged_at, r.reviews>>
NodeId(owner, name, n) == <<owner, name, n.number, n.createdAt, n.closedAt, n.mergedAt,
                            n.reviews>>

\* C15: handling a fetched page adds to the records of processRepo exactly
\* one record per node of the page with >= 1 review, parseable createdAt and
\* end time, and an end time >= 3600 seconds after createdAt, in node order,
\* after the records of the earlier pages; nothing else is added or dropped,
\* and the next page is requested whenever the page has hasNextPage true,
\* whatever nodes were discarded.
C15_FilterCompleteness ==
  [][pc = "returned" /\ IsPage(ret) /\ pc' # "killed" =>
       LET kept == SelectSeq(lastPage', Qualifying)
       IN /\ [k \in 1..Len(acc') |-> RecordId(acc'[k])] =
               [k \in 1..Len(acc) |-> RecordId(acc[k])]
               \o [k \in 1..Len(kept) |-> NodeId(variables.owner, variables.name, kept[k])]
          /\ ret.data.hasNextPage => pc' = "request"]_vars

\* processRepo has read a page whose first PR has no review and holds the
\* record of the PR that follows it on the page.
C15_Witness ==
  /\ Len(lastPage) = 2 /\ lastPage[1].reviews = 0
  /\ acc # <<>> /\ acc[Len(acc)].pr_number = lastPage[2].number

\* The records of the rows of a file, in order.
Recs(f) == [k \in 1..Len(RowsOf(f.lines)) |-> RowsOf(f.lines)[k].rec]

\* C16: main takes the candidates in list order and every request is for
\* the current candidate; a candidate in the progress set is passed over in
\* one step with no request and the file unchanged; a collection that
\* returns an empty list leaves the file unchanged (absent stays absent);
\* the file changes only in the write of a non-empty collection result, and
\* a write that completes adds exactly the collected records, in order, as
\* rows.
C16_OrchestratorStep ==
  /\ [](pc \in {"request", "returned", "write"} =>
          /\ idx \in 1..Len(candidates)
          /\ pc # "write" => /\ variables.owner = candidates[idx].owner
                             /\ variables.name = candidates[idx].name)
  /\ [][idx' # idx => idx' = idx + 1 \/ (idx' = 1 /\ run' = run + 1)]_vars
  /\ [][/\ pc = "loop" /\ idx <= Len(candidates) /\ pc' # "killed"
        /\ FullName(candidates[idx].owner, candidates[idx].name) \in processed_repos
        => pc' = "loop" /\ idx' = idx + 1 /\ file' = file /\ calllog' = <<>>]_vars
  /\ [][pc = "returned" /\ pc' = "loop" => acc = <<>> /\ file' = file]_vars
  /\ [][file' # file => pc = "write" /\ acc # <<>>]_vars
  /\ [][pc = "write" /\ pc' = "loop" =>
          /\ Recs(file') = Recs(file) \o acc
          /\ idx' = idx + 1]_vars

\* In a second run the first candidate, of which the file had no row, has
\* been collected and saved, and the second one, in the progress set, has
\* been passed over.
C16_Witness ==
  /\ run = 2 /\ pc = "loop" /\ idx = 3
  /\ candidates = <<RepoAB, RepoCD>>
  /\ processed_repos = {"c/d"}
  /\ \E k \in 1..Len(file.lines) : k > linesAtStart /\ file.lines[k].rec.repo_owner = "a"

\* Number of header lines among the lines.
Headers(lines) == Cardinality({k \in 1..Len(lines) : lines[k].kind = "header"})

\* C17: a file with content holds exactly one header line, its first line;
\* a step that changes a file with content adds no header line.
C17_HeaderOnce ==
  /\ [](file.lines # <<>> => file.lines[1].kind = "header" /\ Headers(file.lines) = 1)
  /\ [][file.lines # <<>> => Headers(file'.lines) = Headers(file.lines)]_vars

\* A run that found the file with the header alone (the first write was cut
\* short after it) has added rows to it.
C17_Witness ==
  /\ run = 2 /\ linesAtStart = 1 /\ file.lines[1].kind = "header"
  /\ Len(file.lines) > 2 /\ file.lines[Len(file.lines)].kind = "row"

\* The three conditions under which the discovery is over: the target is
\* reached; the page just gone through (all its candidates examined, or
\* none on it) came with hasNextPage false; the search request just issued
\* returned failure (a status other than 200, an error list, no search data).
TargetReached == Len(valid_repos) >= Target
SearchExhausted ==
  /\ ~page_info.hasNextPage
  /\ \/ lastReq.q = "search" /\ lastReq.out = "ok" /\ repos = <<>>
     \/ /\ lastReq.q = "count" /\ lastReq.out # "exc"
        /\ repos # <<>> /\ lastReq.target = repos[Len(repos)].name
SearchFailed == lastReq.q = "search" /\ lastReq.out \in {"status", "err", "nodata"}

Accepted == SelectSeq(examined, LAMBDA e : e.told >= 100)

C20_RequestTerminates ==
  /\ [](/\ Len(calllog) <= Retries
        /\ pc = "request" => Len(calllog) < Retries /\ attempt = Len(calllog)
        /\ Len(calllog) = Retries => pc = "returned")
  /\ [][pc = "request" =>
          \/ pc' = "killed"
          \/ /\ Len(calllog') = Len(calllog) + 1
             /\ pc' \in {"request", "returned"}]_vars

\* The API answered each of the 3 requests of a call with a rate-limited
\* error and the call has returned.
C20_Witness ==
  /\ CallKinds = <<"rate", "rate", "rate">>
  /\ pc = "returned" /\ ret = NoneRet

====
